---- MODULE Spec2Model ----
(***************************************************************************)
(* A model of crm/schema.py: the four GraphQL mutations CreateCustomer,    *)
(* BulkCreateCustomers, CreateProduct and CreateOrder over the Customer,   *)
(* Product and Order tables.                                               *)
(*                                                                         *)
(* Strings that the code only compares or searches are kept as strings.    *)
(* A message is the sequence of its words, in the case the code writes     *)
(* them; str(e).lower() and the `in` test are the operators Lower and      *)
(* Contains.  A phone number is the sequence of its characters, matched    *)
(* by the regular expression of the code.  A price is a number of cents.   *)
(* An optional value is a sequence of length 0 or 1.                       *)
(***************************************************************************)
EXTENDS Integers, Sequences, FiniteSets, TLC

VARIABLES
    customers,   \* committed Customer rows, in id order: id = index
    products,    \* committed Product rows, in id order
    orders,      \* committed Order rows with their product links
    last,        \* the call in flight towards the client: request and response
    pre,         \* the committed store when that call started
    reqs         \* concurrent customer requests: position, private state, response

vars == <<customers, products, orders, last, pre, reqs>>

(***************************************************************************)
(* Bounds of the model.                                                    *)
(***************************************************************************)
MaxRows == 3
MaxProducts == 2
MaxOrders == 1
MaxIdList == 2
MaxRequests == 2
MaxRaceRows == 2

(***************************************************************************)
(* Sample inputs.                                                          *)
(***************************************************************************)
ValidEmails == {"a@x.com", "b@x.com"}
InvalidEmails == {"not-an-address"}
Emails == ValidEmails \cup InvalidEmails

NoPhone == <<>>
DashedPhone == <<"1","2","3","-","4","5","6","-","7","8","9","0">>
PlusPhone == <<"+","1","2","3","4","5","6","7","8","9","0">>
ShortPhone == <<"1","2","3","4","5">>
Phones == {NoPhone, DashedPhone, PlusPhone, ShortPhone}

CustomerInputs == [email : Emails, phone : Phones]

(***************************************************************************)
(* Exceptions.  dict is the field of the error_dict of a ValidationError   *)
(* that was built from a dictionary (full_clean), and empty for one built  *)
(* from a single message; msg is its message as words.                        *)
(***************************************************************************)
NoExc == [type |-> "", dict |-> <<>>, msg |-> <<>>]
ValidationErrorMsg(m) == [type |-> "ValidationError", dict |-> <<>>, msg |-> m]
ValidationErrorDict(f, m) == [type |-> "ValidationError", dict |-> <<f>>, msg |-> m]
OtherError(t, m) == [type |-> t, dict |-> <<>>, msg |-> m]

\* str(e): a dictionary prints its key before its messages.
Str(e) == e.dict \o e.msg

LowerWord(w) ==
    CASE w = "Customer" -> "customer"
      [] w = "Product" -> "product"
      [] w = "Price" -> "price"
      [] w = "Stock" -> "stock"
      [] w = "Phone" -> "phone"
      [] w = "Email" -> "email"
      [] w = "Invalid" -> "invalid"
      [] w = "Enter" -> "enter"
      [] w = "At" -> "at"
      [] w = "Field" -> "field"
      [] w = "ID" -> "id"
      [] w = "UNIQUE" -> "unique"
      [] w = "An" -> "an"
      [] OTHER -> w

Lower(text) == [i \in DOMAIN text |-> LowerWord(text[i])]

\* The search words that occur inside a longer word.
WordsInside(w) ==
    CASE w = "customer1" -> {"customer"}
      [] w = "crm_customer.email" -> {"customer", "email"}
      [] OTHER -> {w}

\* needle in text
Contains(text, needle) == \E i \in DOMAIN text : needle \in WordsInside(text[i])

(***************************************************************************)
(* Responses.  success is "True", "False" or "None" (the field was never   *)
(* set); raised is the type of the exception that left the handler.        *)
(***************************************************************************)
ErrorType(f, row, m) == [field |-> f, row |-> row, messages |-> m]

Returned(op, input, entities, errors, success) ==
    [op |-> op, input |-> input, raised |-> "", entities |-> entities,
     errors |-> errors, success |-> success]

Raised(op, input, type) ==
    [op |-> op, input |-> input, raised |-> type, entities |-> <<>>,
     errors |-> <<>>, success |-> "None"]

NoCall == Returned("", <<>>, <<>>, <<>>, "None")

(***************************************************************************)
(* Validation of a customer.                                               *)
(***************************************************************************)
IsDigit(c) == c \in {"0","1","2","3","4","5","6","7","8","9"}
IsSep(c) == c \in {"-", ".", " ", "\t", "\n", "\r"}

DigitsAt(p, i, n) == i + n - 1 <= Len(p) /\ \A k \in i..(i + n - 1) : IsDigit(p[k])
AfterPlus(p, i) == IF i <= Len(p) /\ p[i] = "+" THEN i + 1 ELSE i
AfterSep(p, i) == IF i <= Len(p) /\ IsSep(p[i]) THEN i + 1 ELSE i
AtEnd(p, i) == i = Len(p) + 1 \/ (i = Len(p) /\ p[i] = "\n")

\* re.match(r'^\+?\d{3}[-.\s]?\d{3}[-.\s]?\d{4}$', phone)
phone_regex(p) ==
    LET a == AfterPlus(p, 1)
        b == AfterSep(p, a + 3)
        c == AfterSep(p, b + 3)
    IN  DigitsAt(p, a, 3) /\ DigitsAt(p, b, 3) /\ DigitsAt(p, c, 4) /\ AtEnd(p, c + 4)

\* validate_email(email): the addresses the validator accepts
validate_email(email) == email \in ValidEmails

EmailInvalidMsg == <<"Enter", "a", "valid", "email", "address">>
EmailExistsMsg == <<"Customer", "with", "this", "Email", "already", "exists">>
CreateCustomerPhoneMsg == <<"Phone", "number", "must", "be", "in", "format">>
BulkPhoneMsg == <<"Invalid", "phone", "format">>
UniqueFailedMsg == <<"UNIQUE", "constraint", "failed", "crm_customer.email">>
TransactionBrokenMsg == <<"An", "error", "occurred", "in", "the", "current", "transaction">>

HasEmail(rows, email) == \E i \in DOMAIN rows : rows[i].email = email

\* Customer(...).full_clean() against the rows the transaction sees
CustomerFullClean(view, input) ==
    IF HasEmail(view, input.email)
    THEN ValidationErrorDict("email", EmailExistsMsg)
    ELSE NoExc

\* The phone test, validate_email and full_clean, in the order of the code.
CustomerChecks(view, input, phoneMsg) ==
    IF input.phone # <<>> /\ ~phone_regex(input.phone) THEN ValidationErrorMsg(phoneMsg)
    ELSE IF ~validate_email(input.email) THEN ValidationErrorMsg(EmailInvalidMsg)
    ELSE CustomerFullClean(view, input)

\* customer.save(): the unique index on email decides
CustomerSave(rows, input) ==
    IF HasEmail(rows, input.email)
    THEN [exc |-> OtherError("IntegrityError", UniqueFailedMsg), rows |-> rows]
    ELSE [exc |-> NoExc, rows |-> Append(rows, [email |-> input.email])]

(***************************************************************************)
(* CreateCustomer.mutate                                                   *)
(***************************************************************************)
\* The except clauses: the response for an exception of the try block.
\* The ValidationError clause reads e.message_dict, which raises
\* AttributeError when e has no error_dict, and builds
\* ErrorType(field, messages, success=False), which raises TypeError since
\* ErrorType has no field success.
CreateCustomerExcept(input, e) ==
    IF e.type = "ValidationError"
    THEN IF e.dict = <<>>
         THEN Raised("create_customer", input, "AttributeError")
         ELSE Raised("create_customer", input, "TypeError")
    ELSE IF e.type = "IntegrityError"
    THEN Returned("create_customer", input, <<>>,
                  <<ErrorType("email", 0, <<"Email", "already", "exists">>)>>, "False")
    ELSE Returned("create_customer", input, <<>>,
                  <<ErrorType("non_field_errors", 0, Str(e))>>, "False")

CreateCustomerMutate(rows, input) ==
    LET e == CustomerChecks(rows, input, CreateCustomerPhoneMsg)
        s == CustomerSave(rows, input)
    IN  IF e # NoExc THEN [rows |-> rows, resp |-> CreateCustomerExcept(input, e)]
        ELSE IF s.exc # NoExc THEN [rows |-> rows, resp |-> CreateCustomerExcept(input, s.exc)]
        ELSE [rows |-> s.rows,
              resp |-> Returned("create_customer", input,
                                <<[email |-> input.email]>>, <<>>, "True")]

(***************************************************************************)
(* BulkCreateCustomers.mutate                                              *)
(***************************************************************************)
\* error_field of the except clause
BulkErrorField(e) ==
    IF Contains(Lower(Str(e)), "email") THEN "email"
    ELSE IF Contains(Lower(Str(e)), "phone") THEN "phone"
    ELSE "row"

\* The state of the loop: the rows this transaction has inserted, the two
\* result lists, the flag, the exception that left the loop (if any) and
\* whether the transaction is marked for rollback.
BulkStart ==
    [own |-> <<>>, customers |-> <<>>, errors |-> <<>>, success |-> "True",
     escaped |-> "", broken |-> FALSE]

\* The except clause of one row; reading message_dict of a ValidationError
\* without error_dict raises AttributeError out of the loop.
BulkExcept(acc, idx, e) ==
    IF e.type = "ValidationError" /\ e.dict = <<>>
    THEN [acc EXCEPT !.escaped = "AttributeError"]
    ELSE [acc EXCEPT !.errors = Append(@, ErrorType(BulkErrorField(e), idx + 1, e.msg)),
                     !.success = "False"]

\* The try block of one row up to full_clean, against the committed rows
\* and the rows of this transaction.  Once the transaction is marked for
\* rollback the query of full_clean raises TransactionManagementError.
BulkChecks(acc, input, committed) ==
    IF acc.broken /\ CustomerChecks(<<>>, input, BulkPhoneMsg) = NoExc
    THEN OtherError("TransactionManagementError", TransactionBrokenMsg)
    ELSE CustomerChecks(committed \o acc.own, input, BulkPhoneMsg)

\* One iteration of the loop for the row at 0-based index idx.
BulkRow(acc, idx, input, committed) ==
    LET e == BulkChecks(acc, input, committed)
        s == CustomerSave(committed \o acc.own, input)
    IN  IF e # NoExc THEN BulkExcept(acc, idx, e)
        ELSE IF s.exc # NoExc THEN BulkExcept([acc EXCEPT !.broken = TRUE], idx, s.exc)
        ELSE [acc EXCEPT !.own = Append(@, [email |-> input.email]),
                         !.customers = Append(@, [email |-> input.email])]

RECURSIVE BulkLoop(_, _, _, _)
BulkLoop(acc, inputs, idx, committed) ==
    IF idx >= Len(inputs) \/ acc.escaped # "" THEN acc
    ELSE BulkLoop(BulkRow(acc, idx, inputs[idx + 1], committed), inputs, idx + 1, committed)

\* Without the decorator every write stays.
AtomicExitCommits(before, after, escaped, broken) == after

\* @transaction.atomic: roll back when an exception leaves the function or
\* the transaction is marked for rollback, commit otherwise.
AtomicExit(before, after, escaped, broken) ==
    IF escaped \/ broken THEN before ELSE after

BulkResponse(inputs, acc) ==
    IF acc.escaped # ""
    THEN Raised("bulk_create_customers", inputs, acc.escaped)
    ELSE Returned("bulk_create_customers", inputs, acc.customers, acc.errors, acc.success)

BulkCreateCustomersMutate(rows, inputs) ==
    LET acc == BulkLoop(BulkStart, inputs, 0, rows)
    IN  [rows |-> AtomicExit(rows, rows \o acc.own, acc.escaped # "", acc.broken),
         resp |-> BulkResponse(inputs, acc)]

(***************************************************************************)
(* The store and the calls of one client after another.                    *)
(***************************************************************************)
Store == [customers |-> customers, products |-> products, orders |-> orders]
EmptyStore == [customers |-> <<>>, products |-> <<>>, orders |-> <<>>]

Idle == last = NoCall

NoRace == reqs = <<>>

Init ==
    /\ customers = <<>>
    /\ products = <<>>
    /\ orders = <<>>
    /\ last = NoCall
    /\ pre = EmptyStore
    /\ NoRace

SeqsUpTo(S, n) == UNION {[1..k -> S] : k \in 0..n}

CreateCustomer ==
    /\ Idle
    /\ \E input \in CustomerInputs :
         LET r == CreateCustomerMutate(customers, input)
         IN  /\ customers' = r.rows
             /\ last' = r.resp
    /\ pre' = Store
    /\ UNCHANGED <<products, orders, reqs>>

BulkCreateCustomers ==
    /\ Idle
    /\ \E inputs \in SeqsUpTo(CustomerInputs, MaxRows) :
         LET r == BulkCreateCustomersMutate(customers, inputs)
         IN  /\ customers' = r.rows
             /\ last' = r.resp
    /\ pre' = Store
    /\ UNCHANGED <<products, orders, reqs>>

\* The response reaches the client.
Deliver ==
    /\ ~Idle
    /\ last' = NoCall
    /\ pre' = Store
    /\ UNCHANGED <<customers, products, orders, reqs>>

NextCustomers == CreateCustomer \/ BulkCreateCustomers \/ Deliver

SpecCustomers == Init /\ [][NextCustomers]_vars

(***************************************************************************)
(* CreateProduct.mutate                                                    *)
(***************************************************************************)
\* [price, stock] pairs of the inputs; stock is optional
ProductInputs ==
    { [price |-> 1000, stock |-> <<>>],   [price |-> 1000, stock |-> <<0>>],
      [price |-> 1550, stock |-> <<5>>],  [price |-> 0, stock |-> <<>>],
      [price |-> -100, stock |-> <<5>>],  [price |-> 1000, stock |-> <<-1>>],
      [price |-> 0, stock |-> <<-1>>] }

PriceMsg == <<"Price", "must", "be", "positive">>
StockMsg == <<"Stock", "cannot", "be", "negative">>

\* The price test with < for <=.
ProductChecksStrict(input) ==
    IF input.price < 0 THEN ValidationErrorMsg(PriceMsg)
    ELSE IF input.stock # <<>> /\ input.stock[1] # 0 /\ input.stock[1] < 0
    THEN ValidationErrorMsg(StockMsg)
    ELSE NoExc

\* The two tests at the head of the try block.
ProductChecks(input) ==
    IF input.price <= 0 THEN ValidationErrorMsg(PriceMsg)
    ELSE IF input.stock # <<>> /\ input.stock[1] # 0 /\ input.stock[1] < 0
    THEN ValidationErrorMsg(StockMsg)
    ELSE NoExc

\* field of the except clause
ProductErrorField(e) ==
    IF Contains(Lower(Str(e)), "price") THEN "price"
    ELSE IF Contains(Lower(Str(e)), "stock") THEN "stock"
    ELSE "non_field_errors"

\* stock=input.stock or 0
StockOrZero(stock) == IF stock # <<>> /\ stock[1] # 0 THEN stock[1] ELSE 0

CreateProductMutate(rows, input) ==
    LET e == ProductChecks(input)
        row == [price |-> input.price, stock |-> StockOrZero(input.stock)]
    IN  IF e # NoExc
        THEN [rows |-> rows,
              resp |-> Returned("create_product", input, <<>>,
                                <<ErrorType(ProductErrorField(e), 0, Str(e))>>, "False")]
        ELSE [rows |-> Append(rows, row),
              resp |-> Returned("create_product", input, <<row>>, <<>>, "True")]

(***************************************************************************)
(* CreateOrder.mutate                                                      *)
(***************************************************************************)
\* graphene.ID values
CustomerIds == {"1", "2", "7", "abc"}
ProductIds == {"1", "2", "7", "customer1"}

\* int(value) of the primary-key lookup: <<n>>, or <<>> for ValueError
ParseInt(text) ==
    IF \E n \in 0..9 : ToString(n) = text
    THEN <<CHOOSE n \in 0..9 : ToString(n) = text>>
    ELSE <<>>

NotNumberMsg(id) == <<"Field", "id", "expected", "a", "number", "but", "got", id>>
NoCustomerMsg == <<"Customer", "does", "not", "exist">>
NoProductMsg(id) == <<"Product", "with", "ID", id, "does", "not", "exist">>
NoProductsMsg == <<"At", "least", "one", "product", "must", "be", "specified">>
DatabaseMsg == <<"database", "is", "locked">>

\* Model.objects.get(pk=id) on a table of n rows, wrapped as the code wraps it
Lookup(n, id, missing) ==
    IF ParseInt(id) = <<>> THEN OtherError("ValueError", NotNumberMsg(id))
    ELSE IF ParseInt(id)[1] \notin 1..n THEN ValidationErrorMsg(missing)
    ELSE NoExc

\* The loop over product_ids: the first exception, and the products found.
RECURSIVE ProductLoop(_, _, _, _)
ProductLoop(n, ids, i, found) ==
    IF i > Len(ids) THEN [exc |-> NoExc, found |-> found]
    ELSE LET e == Lookup(n, ids[i], NoProductMsg(ids[i]))
         IN  IF e # NoExc THEN [exc |-> e, found |-> found]
             ELSE ProductLoop(n, ids, i + 1, Append(found, ParseInt(ids[i])[1]))

Range(f) == {f[i] : i \in DOMAIN f}

RECURSIVE SumPrices(_, _)
SumPrices(rows, ids) ==
    IF ids = {} THEN 0
    ELSE LET i == CHOOSE j \in ids : TRUE
         IN  rows[i].price + SumPrices(rows, ids \ {i})

\* Order.save(): total_amount is the sum of the prices of the linked products
OrderSave(rows, order) == [order EXCEPT !.total = SumPrices(rows, order.products)]

\* order.products.set(products)
ProductsSet(order, found) == [order EXCEPT !.products = Range(found)]

\* field of the except clause
OrderErrorField(e) ==
    IF Contains(Lower(Str(e)), "customer") THEN "customer_id"
    ELSE IF Contains(Lower(Str(e)), "product") THEN "product_ids"
    ELSE "non_field_errors"

\* The places where the database can refuse a write.
Faults == {"none", "create", "set", "save"}

\* The writes without the closing order.save().
OrderWritesUnsaved(store, customer, found, fault) ==
    LET created == OrderSave(store.products,
                             [customer |-> customer, products |-> {}, total |-> 0])
        linked == ProductsSet(created, found)
        refused == OtherError("OperationalError", DatabaseMsg)
    IN  IF fault = "create" THEN [exc |-> refused, orders |-> store.orders, order |-> <<>>]
        ELSE IF fault = "set"
        THEN [exc |-> refused, orders |-> Append(store.orders, created), order |-> <<>>]
        ELSE [exc |-> NoExc, orders |-> Append(store.orders, linked), order |-> <<linked>>]

\* The three writes that end the try block: the rows written so far and
\* the exception, if the database refuses the write named by fault.  A
\* refused write marks the transaction for rollback.
OrderWrites(store, customer, found, fault) ==
    LET created == OrderSave(store.products,
                             [customer |-> customer, products |-> {}, total |-> 0])
        linked == ProductsSet(created, found)
        saved == OrderSave(store.products, linked)
        refused == OtherError("OperationalError", DatabaseMsg)
    IN  IF fault = "create" THEN [exc |-> refused, orders |-> store.orders, order |-> <<>>]
        ELSE IF fault = "set"
        THEN [exc |-> refused, orders |-> Append(store.orders, created), order |-> <<>>]
        ELSE IF fault = "save"
        THEN [exc |-> refused, orders |-> Append(store.orders, linked), order |-> <<>>]
        ELSE [exc |-> NoExc, orders |-> Append(store.orders, saved), order |-> <<saved>>]

\* The try block: the exception it ends with (or none), the orders the
\* transaction has written and whether it is marked for rollback.
OrderTry(store, input, fault) ==
    LET c == Lookup(Len(store.customers), input.customer_id, NoCustomerMsg)
        l == ProductLoop(Len(store.products), input.product_ids, 1, <<>>)
        w == OrderWrites(store, ParseInt(input.customer_id)[1], l.found, fault)
    IN  IF c # NoExc THEN [exc |-> c, orders |-> store.orders, order |-> <<>>, broken |-> FALSE]
        ELSE IF l.exc # NoExc
        THEN [exc |-> l.exc, orders |-> store.orders, order |-> <<>>, broken |-> FALSE]
        ELSE IF l.found = <<>>
        THEN [exc |-> ValidationErrorMsg(NoProductsMsg), orders |-> store.orders,
              order |-> <<>>, broken |-> FALSE]
        ELSE [exc |-> w.exc, orders |-> w.orders, order |-> w.order,
              broken |-> w.exc # NoExc]

CreateOrderMutate(store, input, fault) ==
    LET t == OrderTry(store, input, fault)
    IN  [orders |-> AtomicExit(store.orders, t.orders, FALSE, t.broken),
         resp |-> IF t.exc # NoExc
                  THEN Returned("create_order", input, <<>>,
                                <<ErrorType(OrderErrorField(t.exc), 0, Str(t.exc))>>, "False")
                  ELSE Returned("create_order", input, t.order, <<>>, "True"),
         fault |-> IF t.broken THEN fault ELSE "none"]

CreateProduct ==
    /\ Idle
    /\ \E input \in ProductInputs :
         LET r == CreateProductMutate(products, input)
         IN  /\ Len(r.rows) <= MaxProducts
             /\ products' = r.rows
             /\ last' = r.resp
    /\ pre' = Store
    /\ UNCHANGED <<customers, orders, reqs>>

OrderInputs == [customer_id : CustomerIds, product_ids : SeqsUpTo(ProductIds, MaxIdList)]

CreateOrder ==
    /\ Idle
    /\ Len(orders) < MaxOrders
    /\ \E input \in OrderInputs, fault \in Faults :
         LET r == CreateOrderMutate(Store, input, fault)
         IN  /\ orders' = r.orders
             /\ last' = [r.resp EXCEPT !.input = [call |-> input, fault |-> r.fault]]
    /\ pre' = Store
    /\ UNCHANGED <<customers, products, reqs>>

NextOrders == CreateCustomer \/ CreateProduct \/ CreateOrder \/ Deliver

SpecOrders == Init /\ [][NextOrders]_vars

(***************************************************************************)
(* Concurrent customer requests.  Each request runs the code of its        *)
(* mutation one database statement at a time: the checks up to full_clean  *)
(* (a read of the committed rows and of its own), then save (an insert).   *)
(* CreateCustomer runs in autocommit; BulkCreateCustomers commits or rolls *)
(* back when the function is left.  An insert waits while another open     *)
(* transaction holds an uncommitted row with the same email.               *)
(***************************************************************************)
RaceInputs == {[email |-> e, phone |-> NoPhone] : e \in Emails}

Request(kind, inputs) ==
    [kind |-> kind, inputs |-> inputs, pc |-> "check", idx |-> 0,
     acc |-> BulkStart, resp |-> NoCall]

Open(q) == q.kind = "bulk" /\ q.pc # "done"

Held(i, email) == \E j \in DOMAIN reqs : j # i /\ Open(reqs[j]) /\ HasEmail(reqs[j].acc.own, email)

StartSingle ==
    /\ Len(reqs) < MaxRequests
    /\ \E input \in RaceInputs : reqs' = Append(reqs, Request("single", <<input>>))
    /\ UNCHANGED <<customers, products, orders, last, pre>>

StartBulk ==
    /\ Len(reqs) < MaxRequests
    /\ \A j \in DOMAIN reqs : reqs[j].kind # "bulk"
    /\ \E inputs \in SeqsUpTo(RaceInputs, MaxRaceRows) :
         reqs' = Append(reqs, Request("bulk", inputs))
    /\ UNCHANGED <<customers, products, orders, last, pre>>

SingleCheck(i) ==
    /\ reqs[i].kind = "single" /\ reqs[i].pc = "check"
    /\ LET input == reqs[i].inputs[1]
           e == CustomerChecks(customers, input, CreateCustomerPhoneMsg)
       IN  reqs' = IF e # NoExc
                   THEN [reqs EXCEPT ![i].pc = "done",
                                     ![i].resp = CreateCustomerExcept(input, e)]
                   ELSE [reqs EXCEPT ![i].pc = "save"]
    /\ UNCHANGED <<customers, products, orders, last, pre>>

SingleSave(i) ==
    /\ reqs[i].kind = "single" /\ reqs[i].pc = "save"
    /\ ~Held(i, reqs[i].inputs[1].email)
    /\ LET input == reqs[i].inputs[1]
           s == CustomerSave(customers, input)
       IN  /\ customers' = s.rows
           /\ reqs' = [reqs EXCEPT ![i].pc = "done",
                                   ![i].resp = IF s.exc # NoExc
                                               THEN CreateCustomerExcept(input, s.exc)
                                               ELSE Returned("create_customer", input,
                                                             <<[email |-> input.email]>>,
                                                             <<>>, "True")]
    /\ UNCHANGED <<products, orders, last, pre>>

\* The position after an iteration of the loop of BulkCreateCustomers.
BulkAfter(q, acc) ==
    [q EXCEPT !.acc = acc,
              !.idx = q.idx + 1,
              !.pc = IF acc.escaped # "" \/ q.idx + 1 >= Len(q.inputs)
                     THEN "exit" ELSE "check"]

BulkCheck(i) ==
    /\ reqs[i].kind = "bulk" /\ reqs[i].pc = "check"
    /\ LET q == reqs[i]
       IN  IF Len(q.inputs) = 0
           THEN reqs' = [reqs EXCEPT ![i].pc = "exit"]
           ELSE LET e == BulkChecks(q.acc, q.inputs[q.idx + 1], customers)
                IN  reqs' = IF e # NoExc
                            THEN [reqs EXCEPT ![i] = BulkAfter(q, BulkExcept(q.acc, q.idx, e))]
                            ELSE [reqs EXCEPT ![i].pc = "save"]
    /\ UNCHANGED <<customers, products, orders, last, pre>>

BulkSave(i) ==
    /\ reqs[i].kind = "bulk" /\ reqs[i].pc = "save"
    /\ LET q == reqs[i]
           input == q.inputs[q.idx + 1]
           s == CustomerSave(customers \o q.acc.own, input)
       IN  /\ ~Held(i, input.email)
           /\ reqs' = IF s.exc # NoExc
                      THEN [reqs EXCEPT ![i] =
                              BulkAfter(q, BulkExcept([q.acc EXCEPT !.broken = TRUE],
                                                      q.idx, s.exc))]
                      ELSE [reqs EXCEPT ![i] =
                              BulkAfter(q, [q.acc EXCEPT
                                              !.own = Append(@, [email |-> input.email]),
                                              !.customers = Append(@, [email |-> input.email])])]
    /\ UNCHANGED <<customers, products, orders, last, pre>>

BulkExit(i) ==
    /\ reqs[i].kind = "bulk" /\ reqs[i].pc = "exit"
    /\ LET q == reqs[i]
       IN  /\ customers' = AtomicExit(customers, customers \o q.acc.own,
                                      q.acc.escaped # "", q.acc.broken)
           /\ reqs' = [reqs EXCEPT ![i].pc = "done",
                                   ![i].resp = BulkResponse(q.inputs, q.acc)]
    /\ UNCHANGED <<products, orders, last, pre>>

NextRace ==
    \/ StartSingle
    \/ StartBulk
    \/ \E i \in DOMAIN reqs : SingleCheck(i)
    \/ \E i \in DOMAIN reqs : SingleSave(i)
    \/ \E i \in DOMAIN reqs : BulkCheck(i)
    \/ \E i \in DOMAIN reqs : BulkSave(i)
    \/ \E i \in DOMAIN reqs : BulkExit(i)

SpecRace == Init /\ [][NextRace]_vars

(***************************************************************************)
(* Properties of the customer mutations, one client after another          *)
(* (SpecCustomers).                                                        *)
(***************************************************************************)
WellFormed(input) ==
    /\ input.phone = <<>> \/ phone_regex(input.phone)
    /\ validate_email(input.email)

AsCustomer(input) == [email |-> input.email]

\* C1: createCustomer with a well-formed input succeeds and stores the
\* customer when no customer has the email; when one has it (the second of
\* two calls with the same email), the call stores nothing and returns one
\* error entry with field email and success=False.
C1_DuplicateEmailReported ==
    (last.op = "create_customer" /\ WellFormed(last.input)) =>
        IF HasEmail(pre.customers, last.input.email)
        THEN /\ last.raised = ""
             /\ last.success = "False"
             /\ Len(last.errors) = 1
             /\ last.errors[1].field = "email"
             /\ customers = pre.customers
        ELSE /\ last.raised = ""
             /\ last.success = "True"
             /\ last.entities = <<AsCustomer(last.input)>>
             /\ customers = Append(pre.customers, AsCustomer(last.input))

\* The rows of a bulk input whose email is malformed.
BadEmailRows(inputs) == {i \in DOMAIN inputs : ~validate_email(inputs[i].email)}

\* Exactly one row has a malformed email; the others are well-formed, new
\* to the store and pairwise different.
OneBadEmailRow(rows, inputs) ==
    /\ Cardinality(BadEmailRows(inputs)) = 1
    /\ \A i \in DOMAIN inputs : inputs[i].phone = <<>> \/ phone_regex(inputs[i].phone)
    /\ \A i \in DOMAIN inputs \ BadEmailRows(inputs) :
         /\ ~HasEmail(rows, inputs[i].email)
         /\ \A j \in DOMAIN inputs : j # i => inputs[j].email # inputs[i].email

\* C2: bulkCreateCustomers with exactly one row of malformed email, all the
\* other rows valid and not duplicates, returns the other rows in input
\* order, exactly one error tagged "email (row i+1)" and success=False.
C2_OneBadRowIsolated ==
    (last.op = "bulk_create_customers" /\ OneBadEmailRow(pre.customers, last.input)) =>
        LET bad == CHOOSE i \in BadEmailRows(last.input) : TRUE
            all == [i \in DOMAIN last.input |-> AsCustomer(last.input[i])]
            keep(c) == validate_email(c.email)
        IN  /\ last.raised = ""
            /\ last.entities = SelectSeq(all, keep)
            /\ Len(last.errors) = 1
            /\ last.errors[1].field = "email"
            /\ last.errors[1].row = bad
            /\ last.success = "False"

\* C4: no exception leaves a mutation; a call that did not succeed returns
\* success=False with a structured error entry.
C4_NoExceptionEscapes ==
    last.op # "" =>
        /\ last.raised = ""
        /\ last.success = "True" \/ (last.success = "False" /\ last.errors # <<>>)

\* C9: the result of bulkCreateCustomers partitions the rows: every row is
\* in customers or has exactly one error entry, customers keeps the input
\* order, success is true exactly when errors is empty, and the rows newly
\* committed are exactly the returned customers.
C9_BulkPartition ==
    last.op = "bulk_create_customers" =>
        LET n == Len(last.input)
            failed == {last.errors[k].row : k \in DOMAIN last.errors}
            all == [i \in 1..n |-> [row |-> i, c |-> AsCustomer(last.input[i])]]
            ok(x) == x.row \notin failed
            kept == SelectSeq(all, ok)
        IN  /\ last.raised = ""
            /\ Len(last.entities) + Len(last.errors) = n
            /\ failed \subseteq 1..n
            /\ Cardinality(failed) = Len(last.errors)
            /\ last.entities = [k \in DOMAIN kept |-> kept[k].c]
            /\ (last.success = "True") = (last.errors = <<>>)
            /\ last.success \in {"True", "False"}
            /\ customers = pre.customers \o last.entities

(***************************************************************************)
(* Properties of concurrent customer requests (SpecRace).                  *)
(***************************************************************************)
EmailsUnique(rows) == \A i, j \in DOMAIN rows : rows[i].email = rows[j].email => i = j

\* Row k of a finished request reports the creation of its customer.
ReportsCreated(q, k) ==
    /\ q.resp.raised = ""
    /\ IF q.kind = "single" THEN q.resp.success = "True"
       ELSE \E m \in DOMAIN q.resp.entities : q.resp.entities[m] = AsCustomer(q.inputs[k])

\* Row k of a finished request reports an error with field email.
ReportsEmailError(q, k) ==
    /\ q.resp.raised = ""
    /\ q.resp.success = "False"
    /\ \E m \in DOMAIN q.resp.errors :
         /\ q.resp.errors[m].field = "email"
         /\ q.kind = "bulk" => q.resp.errors[m].row = k

\* C8: no two committed customers share an email, and of two finished
\* requests that tried to create the same (well-formed) email at most one
\* reports success and the other reports an error with field email
\* ("email (row k)" for a bulk request).
C8_UniqueEmailUnderRace ==
    /\ EmailsUnique(customers)
    /\ \A i, j \in DOMAIN reqs :
         (i # j /\ reqs[i].pc = "done" /\ reqs[j].pc = "done") =>
            \A k \in DOMAIN reqs[i].inputs, l \in DOMAIN reqs[j].inputs :
               (/\ reqs[i].inputs[k].email = reqs[j].inputs[l].email
                /\ WellFormed(reqs[i].inputs[k])
                /\ WellFormed(reqs[j].inputs[l])) =>
                  /\ ~(ReportsCreated(reqs[i], k) /\ ReportsCreated(reqs[j], l))
                  /\ ReportsCreated(reqs[i], k) \/ ReportsEmailError(reqs[i], k)

(***************************************************************************)
(* Properties of the product and order mutations (SpecOrders).             *)
(***************************************************************************)
OrderCall == last.input.call

\* The id names a row of a table of n rows.
Resolves(n, id) == \E i \in 1..n : ToString(i) = id

Failed == last.raised = "" /\ last.success = "False" /\ Len(last.errors) = 1

\* C3: a createOrder call that fails, at whichever step, leaves the orders
\* and their product links as they were before the call.
C3_OrderAllOrNothing ==
    (last.op = "create_order" /\ last.success # "True") => orders = pre.orders

\* A call failed at the closing save, after the order row and its links
\* were written.
C3_Witness ==
    /\ last.op = "create_order"
    /\ last.input.fault = "save"
    /\ last.success = "False"
    /\ pre.products # <<>>

\* C5: createOrder with an empty productIds list fails and creates no
\* order; createOrder with a customerId that resolves to no stored customer
\* fails with error field customer_id, whatever productIds holds.
C5_EmptyListAndMissingCustomer ==
    last.op = "create_order" =>
        /\ OrderCall.product_ids = <<>> => (Failed /\ orders = pre.orders)
        /\ ~Resolves(Len(pre.customers), OrderCall.customer_id) =>
              (Failed /\ last.errors[1].field = "customer_id")

\* The first id of the list that names no stored product.
FirstUnresolved(n, ids) ==
    ids[CHOOSE i \in DOMAIN ids :
          /\ ~Resolves(n, ids[i])
          /\ \A j \in 1..(i - 1) : Resolves(n, ids[j])]

\* C10: createOrder with an existing customer and a list holding an id of
\* no stored product fails, names the first such id in the message and
\* tags the error product_ids, whatever the id is.
C10_MissingProductTagged ==
    (/\ last.op = "create_order"
     /\ Resolves(Len(pre.customers), OrderCall.customer_id)
     /\ \E i \in DOMAIN OrderCall.product_ids :
          ~Resolves(Len(pre.products), OrderCall.product_ids[i])) =>
        /\ Failed
        /\ last.errors[1].field = "product_ids"
        /\ \E k \in DOMAIN last.errors[1].messages :
             last.errors[1].messages[k] =
                FirstUnresolved(Len(pre.products), OrderCall.product_ids)
        /\ orders = pre.orders

\* C6: createProduct with price <= 0 fails with field price, and with
\* price > 0 and stock < 0 fails with field stock; neither stores a
\* product, and every stored product has price > 0 and stock >= 0.
C6_ProductBounds ==
    /\ (last.op = "create_product" /\ last.input.price <= 0) =>
          (Failed /\ last.errors[1].field = "price" /\ products = pre.products)
    /\ (/\ last.op = "create_product"
        /\ last.input.price > 0
        /\ last.input.stock # <<>>
        /\ last.input.stock[1] < 0) =>
          (Failed /\ last.errors[1].field = "stock" /\ products = pre.products)
    /\ \A i \in DOMAIN products : products[i].price > 0 /\ products[i].stock >= 0

\* A product is stored and a call with a negative stock was refused.
C6_Witness ==
    /\ last.op = "create_product"
    /\ last.input.price > 0
    /\ last.input.stock = <<-1>>
    /\ last.success = "False"
    /\ products # <<>>

\* The sum of the prices of the rows whose index is in linked.
RECURSIVE PriceOfLinked(_, _, _)
PriceOfLinked(rows, linked, k) ==
    IF k = 0 THEN 0
    ELSE (IF k \in linked THEN rows[k].price ELSE 0) + PriceOfLinked(rows, linked, k - 1)

\* C7: a successful createOrder returns and stores an order whose
\* total_amount is the sum of the prices of the products it links, each
\* linked product counted once.
C7_TotalIsSumOfPrices ==
    (last.op = "create_order" /\ last.success = "True") =>
        LET ids == OrderCall.product_ids
            linked == {i \in DOMAIN products : \E k \in DOMAIN ids : ToString(i) = ids[k]}
        IN  /\ Len(last.entities) = 1
            /\ last.entities[1].products = linked
            /\ last.entities[1].total = PriceOfLinked(products, linked, Len(products))
            /\ orders = Append(pre.orders, last.entities[1])

\* An order of the products priced 10.00 and 15.50 has the total 25.50.
C7_Witness ==
    /\ last.op = "create_order"
    /\ last.success = "True"
    /\ Cardinality(last.entities[1].products) = 2
    /\ last.entities[1].total = 2550

====
